---------------------------- MODULE Spec2Model ----------------------------
(***************************************************************************)
(* A model of the data-movement layer of onevpl-rs:                        *)
(*   - Bitstream   (src/src/bitstream.rs): the compressed buffer shared    *)
(*                 with the engine through mfxBitstream.                   *)
(*   - FrameSurface (src/src/lib.rs): the streaming io::Read over the      *)
(*                 planes of a mapped surface and read_raw_frame.          *)
(* Sequences are 1-based; a Rust index i is position i + 1.                *)
(***************************************************************************)
EXTENDS Integers, Sequences, FiniteSets, TLC

VARIABLES
    buffer,       \* Bitstream.buffer: the caller's backing storage
    DataOffset,   \* Bitstream.inner.DataOffset
    DataLength,   \* Bitstream.inner.DataLength
    panicked,     \* the program aborted (a failed assert!, a slice panic)
    last,         \* the last Bitstream call: its input and its result
    fifo,         \* reference FIFO that never moves its data
    ref,          \* what the reference FIFO answered to the last call
    sent,         \* round trip: the content set into the empty Bitstream
    got,          \* round trip: the reads of that content, concatenated
    phase,        \* round trip: "idle" | "drain"
    fourcc,       \* FrameSurface: inner.Info.FourCC
    crop_w,       \* FrameSurface: inner.Info.CropW
    crop_h,       \* FrameSurface: inner.Info.CropH
    pitch,        \* FrameSurface: inner.Data.PitchLow
    planes,       \* FrameSurface: the memory behind Data.Y / U / V / B
    shadow,       \* FrameSurface.buffer: the shadow buffer of read_raw_frame
    read_offset,  \* FrameSurface.read_offset: the streaming cursor
    mapped,       \* FrameSurface.mapped
    engMaps,      \* engine: successful Maps of the surface not yet unmapped
    dropped,      \* FrameSurface: the value was destroyed (Drop has run)
    fsLast,       \* the last FrameSurface call: its input and its result
    streamed,     \* the outputs of the streaming reads, concatenated
    clean,        \* no plane was rewritten after the streaming began
                  \* (streamed is kept only while this holds)
    faOwner,      \* FrameAllocator: "none" | "app" | "session" | "gone"
    faAddr,       \* FrameAllocator: the address the value lives at (0: none)
    pthis,        \* FrameAllocator.inner.pthis
    callbacks,    \* FrameAllocator.*_callback: role -> handler (0: None)
    engAllocator, \* engine: its copy of the mfxFrameAllocator of the session
    sessionOpen,  \* Session: MFXClose has not run
    faLast,       \* the last step of the allocator bridge
    cached,       \* engine: frames the decoder holds back
    pending,      \* engine: operations submitted and not completed, by kind
    fileLeft,     \* decode_file: bytes of the input file not yet read
    loop,         \* decode_file: "decode" | "drain" | "done" | "panic"
    drain,        \* decode_file: the drain loop: n, iterations, outputs
    plLast        \* the last call of the pipeline: its statuses and result

bsvars == <<buffer, DataOffset, DataLength, panicked, last>>
rtvars == <<fifo, ref, sent, got, phase>>
fsvars == <<fourcc, crop_w, crop_h, pitch, planes, shadow, read_offset, mapped,
            engMaps, dropped, fsLast, streamed, clean>>
alvars == <<faOwner, faAddr, pthis, callbacks, engAllocator, sessionOpen,
            faLast>>
plvars == <<cached, pending, fileLeft, loop, drain, plLast>>
vars == <<buffer, DataOffset, DataLength, panicked, last, fifo, ref, sent, got,
          phase, fourcc, crop_w, crop_h, pitch, planes, shadow, read_offset,
          mapped, engMaps, dropped, fsLast, streamed, clean, faOwner, faAddr,
          pthis, callbacks, engAllocator, sessionOpen, faLast, cached,
          pending, fileLeft, loop, drain, plLast>>

-----------------------------------------------------------------------------
(* Bounds *)

\* capacity of the backing buffer (buffer.len(), MaxLength)
Capacity == 3
\* longest input handed to one write call
MaxInput == 2

Byte == {0, 1}

Min(a, b) == IF a <= b THEN a ELSE b

SeqsUpTo(n) == UNION {[1..k -> Byte] : k \in 0..n}

-----------------------------------------------------------------------------
(* Bitstream: pure functions, as the code computes them *)

\* slice.copy_within(from..to, 0) with Rust indices: a memmove to the front.
\* The caller checks to <= Len(s), as the slice method panics otherwise.
copy_within(s, from, to) ==
    [i \in 1..Len(s) |-> IF i <= to - from THEN s[from + i] ELSE s[i]]

\* The bytes of s at Rust indices [from, to), cut at the end of s.
Slice(s, from, to) ==
    IF Min(to, Len(s)) <= from THEN <<>>
    ELSE [i \in 1..(Min(to, Len(s)) - from) |-> s[from + i]]

\* The valid bytes of the bitstream: [DataOffset, DataOffset + DataLength)
Content(b, off, len) == Slice(b, off, off + len)

is_full(data_len, cap) == data_len >= cap

write_full_accepts(b, off, len, buf) ==
    LET cap == Len(b) IN
    IF is_full(len, cap)
    THEN [panic |-> FALSE, ret |-> Len(buf), buffer |-> b, off |-> off,
          len |-> len]
    ELSE IF off > 0 /\ off + len > cap
    THEN [panic |-> TRUE, ret |-> 0, buffer |-> b, off |-> off, len |-> len]
    ELSE LET moved == IF off > 0 THEN copy_within(b, off, off + len) ELSE b
             copy_len == Min(cap - len, Len(buf))
         IN [panic |-> FALSE,
             ret |-> copy_len,
             buffer |-> [i \in 1..cap |->
                          IF i > len /\ i <= len + copy_len
                          THEN buf[i - len] ELSE moved[i]],
             off |-> 0,
             len |-> len + copy_len]

\* <Bitstream as io::Write>::write
write(b, off, len, buf) ==
    LET cap == Len(b) IN
    IF is_full(len, cap)
    THEN [panic |-> FALSE, ret |-> 0, buffer |-> b, off |-> off, len |-> len]
    ELSE IF off > 0 /\ off + len > cap
    THEN \* copy_within panics: data_end is past the end of the slice
         [panic |-> TRUE, ret |-> 0, buffer |-> b, off |-> off, len |-> len]
    ELSE LET moved == IF off > 0 THEN copy_within(b, off, off + len) ELSE b
             free_buffer_len == cap - len
             copy_len == Min(free_buffer_len, Len(buf))
         IN [panic |-> FALSE,
             ret |-> copy_len,
             buffer |-> [i \in 1..cap |->
                          IF i > len /\ i <= len + copy_len
                          THEN buf[i - len] ELSE moved[i]],
             off |-> 0,
             len |-> len + copy_len]

read_no_shift(b, off, len, n) ==
    LET bytes == Min(n, len) IN
    [ret |-> bytes, out |-> Slice(b, 0, bytes), buffer |-> b,
     off |-> off, len |-> len - bytes]

read_short(b, off, len, n) ==
    LET bytes == IF n >= 2 /\ len >= 2 THEN Min(n, len) - 1 ELSE Min(n, len) IN
    [ret |-> bytes, out |-> Slice(b, 0, bytes),
     buffer |-> copy_within(b, bytes, len), off |-> off, len |-> len - bytes]

\* <Bitstream as io::Read>::read into a destination of n bytes
read(b, off, len, n) ==
    LET bytes == Min(n, len) IN
    [ret |-> bytes,
     out |-> Slice(b, 0, bytes),
     buffer |-> copy_within(b, bytes, len),
     off |-> off,
     len |-> len - bytes]

\* Bitstream::set_size: assert!(size <= MaxLength); DataLength = size
set_size(cap, off, len, size) ==
    IF size <= cap
    THEN [panic |-> FALSE, off |-> off, len |-> size]
    ELSE [panic |-> TRUE, off |-> off, len |-> len]

-----------------------------------------------------------------------------
(* FrameSurface: bounds and memory *)

\* largest crop width (pixels) and crop height (rows)
MaxW == 3
MaxH == 4
\* the padding bytes of a padded row: pitch - row bytes
MaxPad == 1
\* largest destination of a streaming read, beside one of the frame's size
MaxDst == 4
\* most Maps of one surface the engine holds at a time; it refuses more
MaxMaps == 2

\* FourCC::IyuvOrI420, FourCC::YV12, FourCC::NV12, FourCC::Rgb4OrBgra
FourCCs == {"IYUV", "YV12", "NV12", "BGRA"}
Planar420 == {"IYUV", "YV12"}

\* bytes of one row of the first plane
row_bytes_of(f, w) == IF f = "BGRA" THEN 4 * w ELSE w

\* FrameSurface::frame_size
frame_size(f, w, h) == IF f = "BGRA" THEN w * h * 4 ELSE (w * h * 3) \div 2

\* The bytes behind each plane pointer after Map.  Every byte is a token
\* naming its plane and its index, so that a copy is known by what it moved.
PlaneLen(f, name, h, p) ==
    CASE name = "Y" -> IF f = "BGRA" THEN 0 ELSE h * p
      [] name = "U" -> IF f = "BGRA" THEN 0
                       ELSE IF f = "NV12" THEN (h \div 2) * p
                       ELSE (h \div 2) * (p \div 2)
      [] name = "V" -> IF f \in Planar420 THEN (h \div 2) * (p \div 2) ELSE 0
      [] name = "B" -> IF f = "BGRA" THEN h * p ELSE 0

PlaneBase(name) ==
    CASE name = "Y" -> 1000 [] name = "U" -> 2000
      [] name = "V" -> 3000 [] name = "B" -> 5000

InitialPlane(f, name, h, p) ==
    [i \in 1..PlaneLen(f, name, h, p) |-> PlaneBase(name) + i - 1]

InitialPlanes(f, h, p) ==
    [name \in {"Y", "U", "V", "B"} |-> InitialPlane(f, name, h, p)]

\* the bytes of one frame as the source of read_raw_frame delivers them
SourceFrame(len) == [i \in 1..len |-> 9000 + i - 1]

-----------------------------------------------------------------------------
(* FrameSurface: the streaming read, as the code computes it *)

row_bytes_partial(roww, room) == Min(roww, room)

\* "We don't want to write a portion of a slice, only whole slices":
\* the bytes one row adds to a destination with `room` bytes left
row_bytes(roww, room) == IF roww <= room THEN roww ELSE 0

\* for i in start..end: one row of roww bytes at plane[i * pitch];
\* break 'outer when a row adds no byte
RECURSIVE plane_loop(_, _, _, _, _, _, _)
plane_loop(plane, i, end, p, roww, room, acc) ==
    IF i >= end THEN [out |-> acc, broke |-> FALSE]
    ELSE LET bytes == row_bytes(roww, room) IN
         IF bytes = 0 THEN [out |-> acc, broke |-> TRUE]
         ELSE plane_loop(plane, i + 1, end, p, roww, room - bytes,
                         acc \o Slice(plane, i * p, i * p + bytes))

\* FourCC::IyuvOrI420 | FourCC::YV12
read_planar(pl, w, h, p, ro, n) ==
    LET total_y_size == w * h
        y == plane_loop(pl["Y"], ro \div w, h, p, w, n, <<>>)
        p2 == p \div 2
        h2 == h \div 2
        w2 == w \div 2
        total_uv_size == w2 * h2
        u == plane_loop(pl["U"], (ro + Len(y.out) - total_y_size) \div w2,
                        h2, p2, w2, n - Len(y.out), y.out)
        v == plane_loop(pl["V"],
                        (ro + Len(u.out) - total_y_size - total_uv_size) \div w2,
                        h2, p2, w2, n - Len(u.out), u.out)
    IN IF y.broke THEN y.out ELSE IF u.broke THEN u.out ELSE v.out

\* FourCC::NV12
read_nv12(pl, w, h, p, ro, n) ==
    LET total_y_size == w * h
        y == plane_loop(pl["Y"], ro \div w, h, p, w, n, <<>>)
        h2 == h \div 2
        uv == plane_loop(pl["U"], (ro + Len(y.out) - total_y_size) \div w,
                         h2, p, w, n - Len(y.out), y.out)
    IN IF y.broke THEN y.out ELSE uv.out

\* FourCC::Rgb4OrBgra: buf.write(&self.b()[self.read_offset..])
read_bgra(pl, ro, n) == Slice(pl["B"], ro, ro + n)

\* <FrameSurface as io::Read>::read into a destination of n bytes:
\* the bytes written; read_offset advances by their count
fs_read(f, pl, w, h, p, ro, n) ==
    CASE f \in Planar420 -> read_planar(pl, w, h, p, ro, n)
      [] f = "NV12" -> read_nv12(pl, w, h, p, ro, n)
      [] f = "BGRA" -> read_bgra(pl, ro, n)

-----------------------------------------------------------------------------
(* FrameSurface: read_raw_frame, as the code computes it *)

\* the accessors of FrameSurface, by the plane pointer they return
Accessors == {"Y", "U", "V", "B", "G", "R", "A"}

accessor_any_format(f, name) == TRUE

\* y(), u(), v(), b(), g(), r(), a(): the match on self.fourcc() reaches a
\* length; every other arm is unimplemented!() or todo!()
accessor_ok(f, name) ==
    IF name \in {"B", "G", "R", "A"} THEN f = "BGRA"
    ELSE f \in {"NV12", "YV12", "IYUV"}

accessor_len_whole_pitch(f, name, h, p) ==
    CASE name \in {"U", "V"} -> (h \div 2) * p
      [] name = "G" -> h * p - 1
      [] name = "R" -> h * p - 2
      [] name = "A" -> h * p - 3
      [] OTHER -> h * p

\* y(), u(), v(), b(), g(), r(), a(): the length of the view returned
accessor_len(f, name, h, p) ==
    CASE name = "Y" -> h * p
      [] name = "U" -> (h \div 2) * (p \div 2)
      [] name = "V" -> (h \div 2) * (p \div 2)
      [] name = "B" -> h * p
      [] name = "G" -> h * p - 1
      [] name = "R" -> h * p - 2
      [] name = "A" -> h * p - 3

\* the end of the last row slice that the row loops of the streaming read
\* take from a plane: from_raw_parts(ptr.offset(i * pitch), w), i < rows
row_end(rows, roww, p) == IF rows = 0 THEN 0 ELSE (rows - 1) * p + roww

\* how far into each plane a streaming read of the whole frame reaches
stream_extent(f, name, w, h, p) ==
    CASE f \in Planar420 /\ name = "Y" -> row_end(h, w, p)
      [] f \in Planar420 /\ name \in {"U", "V"} ->
            row_end(h \div 2, w \div 2, p \div 2)
      [] f = "NV12" /\ name = "Y" -> row_end(h, w, p)
      [] f = "NV12" /\ name = "U" -> row_end(h \div 2, w, p)
      [] f = "BGRA" /\ name = "B" -> accessor_len(f, "B", h, p)
      [] OTHER -> 0

\* The pointer an accessor asserts on.  Data.Y/R, Data.U/G and Data.V/B are
\* unions, set by the engine's Map and nulled by its Unmap whatever the
\* format; Data.A stands alone, and whether a mapped 4:2:0 surface has it
\* set is the engine's choice (a_set).
is_null(f, name, m, a_set) ==
    IF name = "A" /\ f # "BGRA" THEN ~(m /\ a_set) ELSE ~m

\* one accessor call: assert!(!ptr.is_null()), the match, the view
accessor(f, name, h, p, m, a_set) ==
    IF is_null(f, name, m, a_set)
    THEN [panic |-> TRUE, len |-> 0]
    ELSE IF ~accessor_ok(f, name)
    THEN [panic |-> TRUE, len |-> 0]
    ELSE [panic |-> FALSE, len |-> accessor_len(f, name, h, p)]

\* every source and target slice of the row loop lies inside its buffer
rows_in_bounds(target_len, source_len, src_off, rows, roww, p) ==
    \A i \in 0..rows - 1 :
        /\ src_off + i * roww + roww <= source_len
        /\ i * p + roww <= target_len

\* for i_h in 0..rows: target[i_h * pitch..][..roww] = source row i_h
place_rows(target, source, src_off, rows, roww, p) ==
    [k \in 1..Len(target) |->
        LET hit == {i \in 0..rows - 1 : k - 1 >= i * p /\ k - 1 < i * p + roww}
        IN IF hit = {} THEN target[k]
           ELSE LET i == CHOOSE j \in hit : \A m \in hit : m <= j
                IN source[src_off + i * roww + (k - 1 - i * p) + 1]]

\* the planes after luma, then `first`, then `second` are filled from sh
deinterleave_420(pl, sh, f, w, h, p, first, second) ==
    LET p2 == p \div 2
        h2 == h \div 2
        w2 == w \div 2
        ok == /\ accessor_ok(f, "Y") /\ accessor_ok(f, "U") /\ accessor_ok(f, "V")
              /\ rows_in_bounds(accessor_len(f, "Y", h, p), Len(sh), 0, h, w, p)
              /\ rows_in_bounds(accessor_len(f, first, h, p), Len(sh),
                                h * w, h2, w2, p2)
              /\ rows_in_bounds(accessor_len(f, second, h, p), Len(sh),
                                h * w + h2 * w2, h2, w2, p2)
    IN IF ~ok THEN [panic |-> TRUE, planes |-> pl]
       ELSE [panic |-> FALSE,
             planes |-> [name \in DOMAIN pl |->
                 CASE name = "Y" -> place_rows(pl["Y"], sh, 0, h, w, p)
                   [] name = first ->
                        place_rows(pl[first], sh, h * w, h2, w2, p2)
                   [] name = second ->
                        place_rows(pl[second], sh, h * w + h2 * w2, h2, w2, p2)
                   [] OTHER -> pl[name]]]

\* FrameSurface::read_iyuv_or_i420_frame: Y, U, V
read_iyuv_or_i420_frame(pl, sh, f, w, h, p) ==
    deinterleave_420(pl, sh, f, w, h, p, "U", "V")

\* FrameSurface::read_yv12_frame: Y, V, U
read_yv12_frame(pl, sh, f, w, h, p) ==
    deinterleave_420(pl, sh, f, w, h, p, "V", "U")

\* FrameSurface::read_bgra_frame: b.copy_from_slice(&buffer)
read_bgra_frame(pl, sh, f, w, h, p) ==
    IF accessor_ok(f, "B") /\ accessor_len(f, "B", h, p) = Len(sh)
    THEN [panic |-> FALSE, planes |-> [pl EXCEPT !["B"] = sh]]
    ELSE [panic |-> TRUE, planes |-> pl]

\* the match on `format` in read_raw_frame
read_func(format, pl, sh, f, w, h, p) ==
    CASE format = "IYUV" -> read_iyuv_or_i420_frame(pl, sh, f, w, h, p)
      [] format = "YV12" -> read_yv12_frame(pl, sh, f, w, h, p)
      [] format = "BGRA" -> read_bgra_frame(pl, sh, f, w, h, p)
      [] OTHER -> [panic |-> TRUE, planes |-> pl]   \* todo!()

-----------------------------------------------------------------------------
(* FrameSurface: the calls into the engine, as the code makes them *)

\* FrameSurface::map: the engine's Map is called whatever self.mapped is;
\* on success self.mapped = true.  ok is the engine's answer.
map(m, e, ok) ==
    IF ok THEN [err |-> FALSE, mapped |-> TRUE, engMaps |-> e + 1]
    ELSE [err |-> TRUE, mapped |-> m, engMaps |-> e]

\* FrameSurface::unmap: on success self.mapped = false
unmap(m, e, ok) ==
    IF ok THEN [err |-> FALSE, mapped |-> FALSE,
                engMaps |-> IF e > 0 THEN e - 1 ELSE 0]
    ELSE [err |-> TRUE, mapped |-> m, engMaps |-> e]

read_exact_eof_fatal(avail, len, io_err) ==
    IF io_err \/ avail < len
    THEN [status |-> "Unknown", taken |-> Min(avail, len)]
    ELSE [status |-> "Ok", taken |-> len]

\* source.read_exact(&mut buffer) and the match on its result: a source
\* that ends after `avail` bytes, or fails with another error (io_err)
read_exact(avail, len, io_err) ==
    IF io_err THEN [status |-> "Unknown", taken |-> 0]
    ELSE IF avail < len THEN [status |-> "MoreData", taken |-> avail]
    ELSE [status |-> "Ok", taken |-> len]

-----------------------------------------------------------------------------
(* FrameSurface: state machine *)

\* the record of a call: calls = <<Map, Unmap, Release>> calls it made;
\* src = what the source of read_raw_frame held ("full", "short", "error")
FsRecord(op, n, ret, out, format, status, name, calls) ==
    [op |-> op, n |-> n, ret |-> ret, out |-> out, pre |-> read_offset,
     format |-> format, status |-> status, name |-> name, calls |-> calls,
     src |-> ""]

NoFsCall == [op |-> "new", n |-> 0, ret |-> 0, out |-> <<>>, pre |-> 0,
             format |-> "", status |-> "", name |-> "", calls |-> <<0, 0, 0>>,
             src |-> ""]

\* FrameSurface::try_from over a surface of the engine; crop widths from 2,
\* as a 4:2:0 row has at least one chroma sample
FsInit ==
    /\ fourcc \in FourCCs
    /\ crop_w \in 2..MaxW
    /\ crop_h \in 1..MaxH
    /\ pitch \in {row_bytes_of(fourcc, crop_w) + pad : pad \in {0, MaxPad}}
    /\ planes = InitialPlanes(fourcc, crop_h, pitch)
    /\ shadow = [i \in 1..frame_size(fourcc, crop_w, crop_h) |-> 0]
    /\ read_offset = 0
    /\ mapped = FALSE
    /\ engMaps = 0
    /\ dropped = FALSE
    /\ fsLast = NoFsCall
    /\ streamed = <<>>
    /\ clean = TRUE

\* one fixed surface, for the specifications that leave the surface alone
FsRest ==
    /\ fourcc = "BGRA"
    /\ crop_w = 2
    /\ crop_h = 1
    /\ pitch = row_bytes_of("BGRA", 2)
    /\ planes = InitialPlanes("BGRA", 1, row_bytes_of("BGRA", 2))
    /\ shadow = [i \in 1..frame_size("BGRA", 2, 1) |-> 0]
    /\ read_offset = 0
    /\ mapped = FALSE
    /\ engMaps = 0
    /\ dropped = FALSE
    /\ fsLast = NoFsCall
    /\ streamed = <<>>
    /\ clean = TRUE

\* one fixed Bitstream, for the specifications that leave it alone
BsRest ==
    /\ buffer = [i \in 1..Capacity |-> 0]
    /\ DataOffset = 0
    /\ DataLength = 0
    /\ panicked = FALSE
    /\ last = [op |-> "new", arg |-> <<>>, n |-> 0, ret |-> 0, out |-> <<>>,
               preOff |-> 0, preLen |-> 0]

DstSizes == (0..MaxDst) \cup {frame_size(fourcc, crop_w, crop_h)}

\* <FrameSurface as io::Read>::read with a destination size from `sizes`
FsReadOf(sizes) ==
    \E n \in sizes, map_ok \in BOOLEAN :
        /\ ~panicked
        /\ ~dropped
        /\ mapped => map_ok
        /\ (~mapped /\ map_ok) => engMaps < MaxMaps
        /\ IF ~mapped /\ ~map_ok
           THEN \* self.map(MemoryFlag::READ).unwrap()
                /\ panicked' = TRUE
                /\ fsLast' = FsRecord("read", n, 0, <<>>, fourcc, "panic_map",
                                      "", <<1, 0, 0>>)
                /\ UNCHANGED <<read_offset, mapped, engMaps, streamed>>
           ELSE LET out == fs_read(fourcc, planes, crop_w, crop_h, pitch,
                                   read_offset, n)
                    m == IF mapped
                         THEN [err |-> FALSE, mapped |-> mapped,
                               engMaps |-> engMaps]
                         ELSE map(mapped, engMaps, map_ok)
                IN /\ panicked' = FALSE
                   /\ mapped' = m.mapped
                   /\ engMaps' = m.engMaps
                   /\ read_offset' = read_offset + Len(out)
                   /\ streamed' = IF clean THEN streamed \o out ELSE <<>>
                   /\ fsLast' = FsRecord("read", n, Len(out), out, fourcc,
                                         "Ok", "",
                                         <<IF mapped THEN 0 ELSE 1, 0, 0>>)
        /\ UNCHANGED <<fourcc, crop_w, crop_h, pitch, planes, shadow, clean,
                       dropped>>
        /\ UNCHANGED <<buffer, DataOffset, DataLength, last>>
        /\ UNCHANGED <<rtvars, alvars, plvars>>

FsRead == FsReadOf(DstSizes)

\* FrameSurface::read_raw_frame(source, format); a surface of the
\* semi-planar format is given no planar format here.  The source holds
\* `avail` more bytes.  After a failed read_exact the shadow buffer is not
\* read before it is filled again, so its bytes are left as they were.
ReadRawFrame ==
    \E format \in FourCCs, d \in {-1, 0, 1}, io_err \in BOOLEAN,
       map_ok \in BOOLEAN, unmap_ok \in BOOLEAN :
        LET done(st, pan, pl, sh, mp, em, taken, calls) ==
                /\ panicked' = pan
                /\ planes' = pl
                /\ shadow' = sh
                /\ mapped' = mp
                /\ engMaps' = em
                /\ fsLast' = [FsRecord("read_raw_frame", taken, 0, <<>>,
                                       format, st, "", calls)
                              EXCEPT !.src = IF ~map_ok THEN ""
                                             ELSE IF io_err THEN "error"
                                             ELSE IF d < 0 THEN "short"
                                             ELSE "full"]
                /\ clean' = (clean /\ streamed = <<>>)
                /\ streamed' = <<>>
            m == map(mapped, engMaps, map_ok)
            rd == read_exact(Len(shadow) + d, Len(shadow), io_err)
            filled == SourceFrame(Len(shadow))
            r == read_func(format, planes, filled, fourcc, crop_w, crop_h, pitch)
            um == unmap(m.mapped, m.engMaps, unmap_ok)
        IN /\ ~panicked
           /\ ~dropped
           /\ ~(fourcc = "NV12" /\ format \in Planar420)
           /\ map_ok => engMaps < MaxMaps
           \* an outcome that is never consulted is not enumerated twice
           /\ ~map_ok => (d = 0 /\ ~io_err /\ unmap_ok)
           /\ io_err => d = 0
           /\ (rd.status # "Ok" \/ r.panic) => unmap_ok
           /\ IF m.err
              THEN \* self.map(MemoryFlag::WRITE).unwrap()
                   done("panic_map", TRUE, planes, shadow, m.mapped,
                        m.engMaps, 0, <<1, 0, 0>>)
              ELSE IF rd.status # "Ok"
              THEN \* return Err(..): the surface stays mapped
                   done(rd.status, FALSE, planes, shadow, m.mapped,
                        m.engMaps, rd.taken, <<1, 0, 0>>)
              ELSE IF r.panic
              THEN done("panic", TRUE, planes, filled, m.mapped, m.engMaps,
                        rd.taken, <<1, 0, 0>>)
              ELSE IF um.err
              THEN \* self.unmap().unwrap()
                   done("panic_unmap", TRUE, r.planes, filled, um.mapped,
                        um.engMaps, rd.taken, <<1, 1, 0>>)
              ELSE done("Ok", FALSE, r.planes, filled, um.mapped, um.engMaps,
                        rd.taken, <<1, 1, 0>>)
           /\ UNCHANGED <<fourcc, crop_w, crop_h, pitch, read_offset, dropped>>
           /\ UNCHANGED <<buffer, DataOffset, DataLength, last>>
           /\ UNCHANGED <<rtvars, alvars, plvars>>

\* FrameSurface::map(access), called by the application
Map ==
    \E ok \in BOOLEAN :
        LET m == map(mapped, engMaps, ok) IN
        /\ ~panicked
        /\ ~dropped
        /\ ok => engMaps < MaxMaps
        /\ mapped' = m.mapped
        /\ engMaps' = m.engMaps
        /\ fsLast' = FsRecord("map", 0, 0, <<>>, fourcc,
                              IF m.err THEN "Err" ELSE "Ok", "", <<1, 0, 0>>)
        /\ UNCHANGED <<fourcc, crop_w, crop_h, pitch, planes, shadow,
                       read_offset, dropped, streamed, clean>>
        /\ UNCHANGED bsvars
        /\ UNCHANGED <<rtvars, alvars, plvars>>

\* FrameSurface::unmap(), called by the application
Unmap ==
    \E ok \in BOOLEAN :
        LET um == unmap(mapped, engMaps, ok) IN
        /\ ~panicked
        /\ ~dropped
        /\ mapped' = um.mapped
        /\ engMaps' = um.engMaps
        /\ fsLast' = FsRecord("unmap", 0, 0, <<>>, fourcc,
                              IF um.err THEN "Err" ELSE "Ok", "", <<0, 1, 0>>)
        /\ UNCHANGED <<fourcc, crop_w, crop_h, pitch, planes, shadow,
                       read_offset, dropped, streamed, clean>>
        /\ UNCHANGED bsvars
        /\ UNCHANGED <<rtvars, alvars, plvars>>

\* one call of y(), u(), v(), b(), g(), r() or a()
Accessor ==
    \E name \in Accessors, a_set \in BOOLEAN :
        LET r == accessor(fourcc, name, crop_h, pitch, mapped, a_set) IN
        /\ ~panicked
        /\ ~dropped
        /\ ~(name = "A" /\ fourcc # "BGRA" /\ mapped) => a_set
        /\ panicked' = r.panic
        /\ fsLast' = FsRecord("accessor", 0, r.len, <<>>, fourcc,
                              IF r.panic THEN "panic" ELSE "Ok", name,
                              <<0, 0, 0>>)
        /\ UNCHANGED <<fourcc, crop_w, crop_h, pitch, planes, shadow,
                       read_offset, mapped, engMaps, dropped, streamed, clean>>
        /\ UNCHANGED <<buffer, DataOffset, DataLength, last>>
        /\ UNCHANGED <<rtvars, alvars, plvars>>

\* <FrameSurface as Drop>::drop, when the owner lets go of the surface or
\* a panic unwinds through it:
\* if self.mapped { self.unmap().unwrap(); } self.release().unwrap();
Drop ==
    \E unmap_ok \in BOOLEAN, release_ok \in BOOLEAN :
        LET um == unmap(mapped, engMaps, unmap_ok) IN
        /\ ~dropped
        /\ ~mapped => unmap_ok
        /\ (mapped /\ ~unmap_ok) => release_ok
        /\ dropped' = TRUE
        /\ IF mapped /\ um.err
           THEN /\ panicked' = TRUE
                /\ UNCHANGED <<mapped, engMaps>>
                /\ fsLast' = FsRecord("drop", 0, 0, <<>>, fourcc,
                                      "panic_unmap", "", <<0, 1, 0>>)
           ELSE /\ panicked' = (panicked \/ ~release_ok)
                /\ mapped' = IF mapped THEN um.mapped ELSE mapped
                /\ engMaps' = IF mapped THEN um.engMaps ELSE engMaps
                /\ fsLast' = FsRecord("drop", 0, 0, <<>>, fourcc,
                                      IF release_ok THEN "Ok"
                                      ELSE "panic_release", "",
                                      <<0, IF mapped THEN 1 ELSE 0, 1>>)
        /\ UNCHANGED <<fourcc, crop_w, crop_h, pitch, planes, shadow,
                       read_offset, streamed, clean>>
        /\ UNCHANGED <<buffer, DataOffset, DataLength, last>>
        /\ UNCHANGED <<rtvars, alvars, plvars>>

-----------------------------------------------------------------------------
(* FrameAllocator and Session: the allocator bridge *)

\* the places a FrameAllocator value can live at; 0 is no address
MaxAddr == 3
\* the handlers an application has for one role
MaxHandler == 2

Addrs == 1..MaxAddr

\* alloc, lock, unlock, get_hdl, free
Roles == {"alloc", "lock", "unlock", "get_hdl", "free"}

\* what a handler answers
HandlerStatuses == {"NoneOrDone", "Unsupported"}

NoAllocator == [set |-> FALSE, pthis |-> 0, fns |-> {}]

NoFaCall == [op |-> "none", role |-> "", table |-> "", ret |-> "", called |-> 0]

\* the roles whose slot of `inner` holds a trampoline: set_*_callback stores
\* the handler and the trampoline together
inner_fns(cbs) == {r \in Roles : cbs[r] # 0}

trampoline_calls_none(role, h, st) ==
    IF role = "get_hdl" /\ h # 0
    THEN [ret |-> "panic", called |-> 0, panic |-> TRUE]
    ELSE [ret |-> st, called |-> h, panic |-> FALSE]

\* extern "C" fn alloc / lock / unlock / get_hdl / free, once pthis is read
\* as a FrameAllocator whose handler of the role is h (0: None); st is what
\* the handler answers.  get_hdl ends in todo!() when a handler is found.
trampoline(role, h, st) ==
    IF h = 0 THEN [ret |-> "MemoryAlloc", called |-> 0, panic |-> FALSE]
    ELSE IF role = "get_hdl"
    THEN [ret |-> "panic", called |-> 0, panic |-> TRUE]
    ELSE [ret |-> st, called |-> h, panic |-> FALSE]

\* no bridge, an open session
AlInit ==
    /\ faOwner = "none"
    /\ faAddr = 0
    /\ pthis = 0
    /\ callbacks = [r \in Roles |-> 0]
    /\ engAllocator = NoAllocator
    /\ sessionOpen = TRUE
    /\ faLast = NoFaCall

\* for the specifications that leave the bridge alone
AlRest == AlInit

\* FrameAllocator::new: pthis is the address of the local `allocator`, which
\* is then returned by value: the caller's value lives at `home`, the same
\* place only if the build constructs the local there
FaNew ==
    \E local \in Addrs, home \in Addrs :
        /\ ~panicked
        /\ sessionOpen
        /\ faOwner \in {"none", "gone"}
        /\ ~engAllocator.set
        /\ faOwner' = "app"
        /\ faAddr' = home
        /\ pthis' = local
        /\ callbacks' = [r \in Roles |-> 0]
        /\ faLast' = [NoFaCall EXCEPT !.op = "new"]
        /\ UNCHANGED <<engAllocator, sessionOpen>>
        /\ UNCHANGED <<bsvars, rtvars, fsvars, plvars>>

\* FrameAllocator::set_alloc_callback, set_lock_callback, set_unlock_callback,
\* set_get_hdl_callback, set_free_callback
SetCallback ==
    \E role \in Roles, h \in 1..MaxHandler :
        /\ ~panicked
        /\ faOwner = "app"
        /\ callbacks' = [callbacks EXCEPT ![role] = h]
        /\ faLast' = [NoFaCall EXCEPT !.op = "set_callback", !.role = role]
        /\ UNCHANGED <<faOwner, faAddr, pthis, engAllocator, sessionOpen>>
        /\ UNCHANGED <<bsvars, rtvars, fsvars, plvars>>

\* Session::set_allocator(allocator): the value moves into the parameter
\* (`param`), the engine copies allocator.inner, and on success the value
\* moves into self.allocator (`field`, another live place); on failure it is
\* dropped at the return
SetAllocator ==
    \E param \in Addrs, field \in Addrs, ok \in BOOLEAN :
        /\ ~panicked
        /\ sessionOpen
        /\ faOwner = "app"
        /\ field # param
        /\ ~ok => field = 1 + (param % MaxAddr)
        /\ IF ok
           THEN /\ engAllocator' = [set |-> TRUE, pthis |-> pthis,
                                    fns |-> inner_fns(callbacks)]
                /\ faOwner' = "session"
                /\ faAddr' = field
                /\ faLast' = [NoFaCall EXCEPT !.op = "set_allocator",
                                              !.ret = "Ok"]
                /\ UNCHANGED callbacks
           ELSE /\ engAllocator' = engAllocator
                /\ faOwner' = "gone"
                /\ faAddr' = 0
                /\ callbacks' = [r \in Roles |-> 0]
                /\ faLast' = [NoFaCall EXCEPT !.op = "set_allocator",
                                              !.ret = "Err"]
        /\ UNCHANGED <<pthis, sessionOpen>>
        /\ UNCHANGED <<bsvars, rtvars, fsvars, plvars>>

\* the application moves the Session, and self.allocator with it
MoveSession ==
    \E to \in Addrs :
        /\ ~panicked
        /\ sessionOpen
        /\ faOwner = "session"
        /\ to # faAddr
        /\ faAddr' = to
        /\ faLast' = [NoFaCall EXCEPT !.op = "move"]
        /\ UNCHANGED <<faOwner, pthis, callbacks, engAllocator, sessionOpen>>
        /\ UNCHANGED <<bsvars, rtvars, fsvars, plvars>>

\* The engine calls the trampoline of a role it was given, with its copy of
\* pthis: transmute(pthis) is read as the FrameAllocator.  When pthis is the
\* place of the live bridge its handler is found: None returns MemoryAlloc,
\* get_hdl is todo!(), any other handler runs and its status is returned.
\* When it is any other place the read is of memory that is no
\* FrameAllocator: the call traps, or finds no handler, or runs what it
\* takes for one.
Invoke ==
    \E role \in Roles, st \in HandlerStatuses,
       ub \in {"trap", "none", "handler"}, junk \in 1..MaxHandler :
        LET live == faOwner = "session" /\ engAllocator.pthis = faAddr
            h == callbacks[role]
            done(table, ret, called, pan) ==
                /\ faLast' = [op |-> "invoke", role |-> role, table |-> table,
                              ret |-> ret, called |-> called]
                /\ panicked' = pan
        IN /\ ~panicked
           /\ sessionOpen
           /\ engAllocator.set
           /\ role \in engAllocator.fns
           \* an outcome that is never consulted is not enumerated twice
           /\ live => (ub = "trap" /\ junk = 1)
           /\ (live /\ (h = 0 \/ role = "get_hdl")) => st = "NoneOrDone"
           /\ (~live /\ ub # "handler") => (st = "NoneOrDone" /\ junk = 1)
           /\ IF live
              THEN LET t == trampoline(role, h, st)
                   IN done("live", t.ret, t.called, t.panic)
              ELSE CASE ub = "trap" -> done("dangling", "trap", 0, TRUE)
                     [] ub = "none" -> done("dangling", "MemoryAlloc", 0, FALSE)
                     [] ub = "handler" -> done("dangling", st, junk, FALSE)
           /\ UNCHANGED <<faOwner, faAddr, pthis, callbacks, engAllocator,
                          sessionOpen>>
           /\ UNCHANGED <<buffer, DataOffset, DataLength, last>>
           /\ UNCHANGED <<rtvars, fsvars, plvars>>

\* <Session as Drop>::drop: MFXClose, then the fields are dropped, the
\* allocator among them
CloseSession ==
    /\ ~panicked
    /\ sessionOpen
    /\ sessionOpen' = FALSE
    /\ faOwner' = IF faOwner = "session" THEN "gone" ELSE faOwner
    /\ faAddr' = IF faOwner = "session" THEN 0 ELSE faAddr
    /\ engAllocator' = NoAllocator
    /\ faLast' = [NoFaCall EXCEPT !.op = "close"]
    /\ UNCHANGED <<pthis, callbacks>>
    /\ UNCHANGED <<bsvars, rtvars, fsvars, plvars>>

-----------------------------------------------------------------------------
(* The asynchronous pipeline: submit, then synchronize *)

\* most frames an engine component holds back
MaxCached == 2

\* most operations of one kind the engine keeps in flight
MaxPending == 1

\* most bytes of the input file of decode_file
MaxFile == 3

Kinds == {"decode", "process", "encode"}

\* the statuses the submit calls answer with: success, the flow-control
\* ones, a resource one and a fatal one
FlowControl == {"MoreData", "MoreSurface", "VideoParamChanged"}
SubmitStatuses == {"NoneOrDone", "DeviceBusy", "DeviceFailed"} \cup FlowControl

\* the statuses SyncOperation / FrameSurfaceInterface.Synchronize answer
\* with: done, partial output, not done within the wait, failed
SyncStatuses == {"NoneOrDone", "NonePartialOutput", "InExecution",
                 "DeviceFailed"}

synchronize_always_ok(status) == "Ok"

\* FrameSurface::synchronize: only NoneOrDone is success
synchronize(status) ==
    IF status # "NoneOrDone" THEN status ELSE "Ok"

\* Session::sync: NoneOrDone and NonePartialOutput are success
sync(status) ==
    IF status \in {"NoneOrDone", "NonePartialOutput"} THEN "Ok" ELSE status

decode_masks_status(submit, syn) ==
    IF submit # "NoneOrDone"
    THEN [ret |-> "Unknown", surface |-> FALSE, syncs |-> 0,
          released |-> FALSE]
    ELSE IF synchronize(syn) # "Ok"
    THEN [ret |-> syn, surface |-> FALSE, syncs |-> 1, released |-> TRUE]
    ELSE [ret |-> "Ok", surface |-> TRUE, syncs |-> 1, released |-> FALSE]

\* Decoder::decode after DecodeFrameAsync answered `submit`: an early return
\* of the status; else the surface is wrapped and synchronized in the
\* blocking task, which drops it when synchronize fails
decode(submit, syn) ==
    IF submit # "NoneOrDone"
    THEN [ret |-> submit, surface |-> FALSE, syncs |-> 0,
          released |-> FALSE]
    ELSE IF synchronize(syn) # "Ok"
    THEN [ret |-> synchronize(syn), surface |-> FALSE, syncs |-> 1,
          released |-> TRUE]
    ELSE [ret |-> "Ok", surface |-> TRUE, syncs |-> 1, released |-> FALSE]

\* VideoProcessor::process after ProcessFrameAsync answered `submit`
process(submit, syn) ==
    IF submit # "NoneOrDone"
    THEN [ret |-> submit, surface |-> FALSE, syncs |-> 0,
          released |-> FALSE]
    ELSE IF synchronize(syn) # "Ok"
    THEN [ret |-> synchronize(syn), surface |-> FALSE, syncs |-> 1,
          released |-> TRUE]
    ELSE [ret |-> "Ok", surface |-> TRUE, syncs |-> 1, released |-> FALSE]

\* Encoder::encode after EncodeFrameAsync answered `submit`: the sync point
\* is a local of the call, so no result carries it
encode(submit, syn) ==
    IF submit # "NoneOrDone"
    THEN [ret |-> submit, surface |-> FALSE, syncs |-> 0,
          released |-> FALSE]
    ELSE IF sync(syn) # "Ok"
    THEN [ret |-> sync(syn), surface |-> FALSE, syncs |-> 1,
          released |-> FALSE]
    ELSE [ret |-> "Ok", surface |-> FALSE, syncs |-> 1, released |-> FALSE]

\* what the engine does with an accepted operation when it is synchronized:
\* it completes it, leaves it in flight, or gives it up
after_sync(syn) ==
    CASE syn = "NoneOrDone" -> "done"
      [] syn \in {"NonePartialOutput", "InExecution"} -> "pending"
      [] OTHER -> "aborted"

NoPlCall == [op |-> "new", input |-> FALSE, submit |-> "none",
             syn |-> "none", ret |-> "none", surface |-> FALSE, syncs |-> 0,
             released |-> FALSE, bytes |-> 0, left |-> "none",
             engOff |-> 0, engLen |-> 0]

PlInit ==
    /\ cached = [k \in Kinds |-> 0]
    /\ pending = [k \in Kinds |-> 0]
    /\ fileLeft \in 0..MaxFile
    /\ loop = "start"
    /\ drain = [n |-> 0, iters |-> 0, outputs |-> 0]
    /\ plLast = NoPlCall

\* for the specifications that leave the pipeline alone
PlRest == PlInit /\ fileLeft = 0

-----------------------------------------------------------------------------
(* Bitstream: state machine *)

NoCall == [op |-> "new", arg |-> <<>>, n |-> 0, ret |-> 0, out |-> <<>>,
           preOff |-> 0, preLen |-> 0]

\* Bitstream::with_codec over a caller buffer of any content
BsInit ==
    /\ buffer \in [1..Capacity -> Byte]
    /\ DataOffset = 0
    /\ DataLength = 0
    /\ panicked = FALSE
    /\ last = NoCall

RtInit ==
    /\ fifo = <<>>
    /\ ref = [ret |-> 0, out |-> <<>>]
    /\ sent = <<>>
    /\ got = <<>>
    /\ phase = "idle"

WriteCall(buf) ==
    LET r == write(buffer, DataOffset, DataLength, buf) IN
    /\ ~panicked
    /\ buffer' = r.buffer
    /\ DataOffset' = r.off
    /\ DataLength' = r.len
    /\ panicked' = r.panic
    /\ last' = [op |-> "write", arg |-> buf, n |-> Len(buf), ret |-> r.ret,
                out |-> <<>>, preOff |-> DataOffset, preLen |-> DataLength]

ReadCall(n) ==
    LET r == read(buffer, DataOffset, DataLength, n) IN
    /\ ~panicked
    /\ buffer' = r.buffer
    /\ DataOffset' = r.off
    /\ DataLength' = r.len
    /\ panicked' = FALSE
    /\ last' = [op |-> "read", arg |-> <<>>, n |-> n, ret |-> r.ret,
                out |-> r.out, preOff |-> DataOffset, preLen |-> DataLength]

SetSizeCall(size) ==
    LET r == set_size(Len(buffer), DataOffset, DataLength, size) IN
    /\ ~panicked
    /\ buffer' = buffer
    /\ DataOffset' = r.off
    /\ DataLength' = r.len
    /\ panicked' = r.panic
    /\ last' = [op |-> "set_size", arg |-> <<>>, n |-> size, ret |-> 0,
                out |-> <<>>, preOff |-> DataOffset, preLen |-> DataLength]

\* The decoder takes k bytes from the front of the valid data; it is handed
\* only data that lies inside the buffer.
EngineConsume ==
    \E k \in 1..Capacity :
        /\ ~panicked
        /\ k <= DataLength
        /\ DataOffset + DataLength <= Len(buffer)
        /\ buffer' = buffer
        /\ DataOffset' = DataOffset + k
        /\ DataLength' = DataLength - k
        /\ panicked' = FALSE
        /\ last' = [op |-> "consume", arg |-> <<>>, n |-> k, ret |-> k,
                    out |-> Slice(buffer, DataOffset, DataOffset + k),
                    preOff |-> DataOffset, preLen |-> DataLength]
        /\ UNCHANGED <<rtvars, alvars, plvars>>
        /\ UNCHANGED fsvars

\* The encoder appends bytes after the valid data, within MaxLength.
EngineProduce ==
    \E data \in SeqsUpTo(MaxInput) :
        /\ ~panicked
        /\ Len(data) >= 1
        /\ DataOffset + DataLength + Len(data) <= Len(buffer)
        /\ buffer' = [i \in 1..Len(buffer) |->
                        IF i > DataOffset + DataLength
                           /\ i <= DataOffset + DataLength + Len(data)
                        THEN data[i - DataOffset - DataLength] ELSE buffer[i]]
        /\ DataOffset' = DataOffset
        /\ DataLength' = DataLength + Len(data)
        /\ panicked' = FALSE
        /\ last' = [op |-> "produce", arg |-> data, n |-> Len(data),
                    ret |-> Len(data), out |-> <<>>,
                    preOff |-> DataOffset, preLen |-> DataLength]
        /\ UNCHANGED <<rtvars, alvars, plvars>>
        /\ UNCHANGED fsvars

Write ==
    \E buf \in SeqsUpTo(MaxInput) :
        WriteCall(buf) /\ UNCHANGED <<rtvars, alvars, plvars>> /\ UNCHANGED fsvars

Read ==
    \E n \in 0..Capacity + 1 :
        ReadCall(n) /\ UNCHANGED <<rtvars, alvars, plvars>> /\ UNCHANGED fsvars

SetSize ==
    \E size \in 0..Capacity + 1 :
        SetSizeCall(size) /\ UNCHANGED <<rtvars, alvars, plvars>> /\ UNCHANGED fsvars

Init == BsInit /\ RtInit /\ FsRest /\ AlRest /\ PlRest

Next == Write \/ Read \/ SetSize \/ EngineConsume \/ EngineProduce

\* The Bitstream used by the application and by the engine.
Spec == Init /\ [][Next]_vars

-----------------------------------------------------------------------------
(* The Bitstream used by the application alone, beside a reference FIFO *)

\* write, and the reference FIFO appending what fits
FifoWrite ==
    \E buf \in SeqsUpTo(MaxInput) :
        LET r == write(buffer, DataOffset, DataLength, buf)
            taken == SubSeq(buf, 1, r.ret)
            fits == Min(Capacity - Len(fifo), Len(buf))
        IN /\ WriteCall(buf)
           /\ UNCHANGED <<fsvars, alvars, plvars>>
           /\ fifo' = fifo \o SubSeq(buf, 1, fits)
           /\ ref' = [ret |-> fits, out |-> <<>>]
           /\ IF r.ret = 0
              THEN UNCHANGED <<sent, got, phase>>
              ELSE IF DataLength = 0
              THEN phase' = "drain" /\ sent' = taken /\ got' = <<>>
              ELSE IF phase = "drain" /\ got = <<>>
              THEN phase' = "drain" /\ sent' = sent \o taken /\ got' = <<>>
              ELSE phase' = "idle" /\ sent' = <<>> /\ got' = <<>>

\* read, and the reference FIFO handing out its head
FifoRead ==
    \E n \in 0..Capacity + 1 :
        LET r == read(buffer, DataOffset, DataLength, n)
            k == Min(n, Len(fifo))
        IN /\ ReadCall(n)
           /\ UNCHANGED <<fsvars, alvars, plvars>>
           /\ fifo' = SubSeq(fifo, k + 1, Len(fifo))
           /\ ref' = [ret |-> k, out |-> SubSeq(fifo, 1, k)]
           /\ got' = IF phase = "drain" THEN got \o r.out ELSE got
           /\ UNCHANGED <<sent, phase>>

\* set_size declares the first `size` bytes of the buffer to be the content
FifoSetSize ==
    \E size \in 0..Capacity + 1 :
        LET r == set_size(Len(buffer), DataOffset, DataLength, size) IN
        /\ SetSizeCall(size)
        /\ UNCHANGED <<fsvars, alvars, plvars>>
        /\ IF r.panic
           THEN UNCHANGED rtvars
           ELSE /\ fifo' = Content(buffer, r.off, r.len)
                /\ ref' = [ret |-> 0, out |-> <<>>]
                /\ phase' = "drain"
                /\ sent' = Content(buffer, r.off, r.len)
                /\ got' = <<>>

FifoNext == FifoWrite \/ FifoRead \/ FifoSetSize

SpecFifo == Init /\ [][FifoNext]_vars

-----------------------------------------------------------------------------
(* The FrameSurface alone *)

SurfaceInit == FsInit /\ BsRest /\ RtInit /\ AlRest /\ PlRest

SurfaceNext == FsRead \/ ReadRawFrame

\* one FrameSurface, streamed out and filled by the application
SpecSurface == SurfaceInit /\ [][SurfaceNext]_vars

\* one FrameSurface filled from a source, frame after frame
RawNext == ReadRawFrame \/ Map \/ Unmap

SpecRaw == SurfaceInit /\ [][RawNext]_vars

\* the planes of one FrameSurface, mapped, unmapped and borrowed
AccessorNext == Map \/ Unmap \/ Accessor

SpecAccessor == SurfaceInit /\ [][AccessorNext]_vars

\* the destinations of the streaming reads of a lifetime: a row, a frame
LifeSizes == {crop_w, frame_size(fourcc, crop_w, crop_h)}

LifeRead == FsReadOf(LifeSizes)

LifeNext == Map \/ Unmap \/ LifeRead \/ ReadRawFrame \/ Drop

\* one FrameSurface from try_from to Drop
SpecLifetime == SurfaceInit /\ [][LifeNext]_vars

-----------------------------------------------------------------------------
(* The allocator bridge alone *)

AllocatorInit == AlInit /\ BsRest /\ RtInit /\ FsRest /\ PlRest

AllocatorNext ==
    FaNew \/ SetCallback \/ SetAllocator \/ MoveSession \/ Invoke
    \/ CloseSession

\* one Session and the FrameAllocator it is given
SpecAllocator == AllocatorInit /\ [][AllocatorNext]_vars

-----------------------------------------------------------------------------
(* The trampolines alone, over every handler table *)

\* a FrameAllocator after any registrations, read through pthis
TableInit ==
    /\ faOwner = "session"
    /\ faAddr = 1
    /\ pthis = 1
    /\ callbacks \in [Roles -> 0..MaxHandler]
    /\ engAllocator = [set |-> TRUE, pthis |-> 1, fns |-> Roles]
    /\ sessionOpen = TRUE
    /\ faLast = NoFaCall

\* one call of a trampoline with a pthis that designates the table
Trampoline ==
    \E role \in Roles, st \in HandlerStatuses :
        LET t == trampoline(role, callbacks[role], st) IN
        /\ ~panicked
        /\ (callbacks[role] = 0 \/ role = "get_hdl") => st = "NoneOrDone"
        /\ faLast' = [op |-> "invoke", role |-> role, table |-> "live",
                      ret |-> t.ret, called |-> t.called]
        /\ panicked' = t.panic
        /\ UNCHANGED <<faOwner, faAddr, pthis, callbacks, engAllocator,
                       sessionOpen>>
        /\ UNCHANGED <<buffer, DataOffset, DataLength, last>>
        /\ UNCHANGED <<rtvars, fsvars, plvars>>

TrampolineInit == TableInit /\ BsRest /\ RtInit /\ FsRest /\ PlRest

SpecTrampoline == TrampolineInit /\ [][Trampoline]_vars

-----------------------------------------------------------------------------
(* The pipeline: the three calls beside the engine *)

\* the free room after the valid data of the Bitstream
Room == Len(buffer) - DataOffset - DataLength

\* what the engine may answer a submit with: it accepts no operation beyond
\* MaxPending; with the "no more input" marker it hands out a held-back
\* frame while it has one and answers MoreData when it has none
Answers(kind, input) ==
    LET free == IF pending[kind] < MaxPending THEN {"NoneOrDone"} ELSE {}
    IN IF input
       THEN (SubmitStatuses \ {"NoneOrDone"}) \cup free
       ELSE IF cached[kind] > 0
       THEN {"DeviceBusy", "DeviceFailed"} \cup free
       ELSE {"MoreData"}

\* the engine's side of a submit and of the synchronize that follows it
Engine(kind, input, submit, syn, grow, r, off, len, bytes) ==
    /\ submit \in Answers(kind, input)
    /\ syn \in IF r.syncs = 0 THEN {"none"}
               ELSE IF kind = "encode" THEN SyncStatuses
               ELSE SyncStatuses \ {"NonePartialOutput"}
    /\ cached' =
         IF ~input /\ submit = "NoneOrDone"
         THEN [cached EXCEPT ![kind] = @ - 1]
         ELSE IF input /\ grow /\ cached[kind] < MaxCached
         THEN [cached EXCEPT ![kind] = @ + 1]
         ELSE cached
    /\ pending' =
         IF r.syncs = 1 /\ after_sync(syn) = "pending"
         THEN [pending EXCEPT ![kind] = @ + 1]
         ELSE pending
    /\ plLast' = [op |-> kind, input |-> input, submit |-> submit,
                  syn |-> syn, ret |-> r.ret, surface |-> r.surface,
                  syncs |-> r.syncs, released |-> r.released,
                  bytes |-> bytes,
                  left |-> IF r.syncs = 1 THEN after_sync(syn) ELSE "none",
                  engOff |-> off, engLen |-> len]

\* Decoder::decode: DecodeFrameAsync takes k bytes off the front of the
\* Bitstream, or none with the "no more input" marker
DecodeOf(input, submit, syn, k, grow) ==
    /\ k <= DataLength
    /\ input \/ k = 0
    /\ grow => (k > 0 /\ submit \in {"NoneOrDone", "MoreData"})
    /\ Engine("decode", input, submit, syn, grow,
              decode(submit, IF syn = "none" THEN "NoneOrDone" ELSE syn),
              DataOffset + k, DataLength - k, 0)

Decode ==
    \E input \in BOOLEAN, submit \in SubmitStatuses,
       syn \in SyncStatuses \cup {"none"}, k \in 0..Capacity,
       grow \in BOOLEAN :
        /\ ~panicked
        /\ DecodeOf(input, submit, syn, k, grow)
        /\ DataOffset' = DataOffset + k
        /\ DataLength' = DataLength - k
        /\ UNCHANGED <<buffer, panicked, last, fileLeft, loop, drain>>
        /\ UNCHANGED <<rtvars, fsvars, alvars>>

\* VideoProcessor::process: ProcessFrameAsync over an input surface
Process ==
    \E submit \in SubmitStatuses, syn \in SyncStatuses \cup {"none"} :
        /\ ~panicked
        /\ Engine("process", TRUE, submit, syn, FALSE,
                  process(submit, IF syn = "none" THEN "NoneOrDone" ELSE syn),
                  DataOffset, DataLength, 0)
        /\ UNCHANGED <<bsvars, fileLeft, loop, drain>>
        /\ UNCHANGED <<rtvars, fsvars, alvars>>

\* the engine appends k bytes of output after the valid data
EngineWrite(k) ==
    /\ buffer' = [i \in 1..Len(buffer) |->
                    IF i > DataOffset + DataLength
                       /\ i <= DataOffset + DataLength + k
                    THEN 1 ELSE buffer[i]]
    /\ DataOffset' = DataOffset
    /\ DataLength' = DataLength + k

\* Encoder::encode: EncodeFrameAsync is given the output Bitstream; the
\* operation writes into it when it completes; the call reports the growth
\* of the Bitstream's size
Encode ==
    \E input \in BOOLEAN, submit \in SubmitStatuses,
       syn \in SyncStatuses \cup {"none"}, k \in 0..MaxInput,
       grow \in BOOLEAN :
        LET r == encode(submit, IF syn = "none" THEN "NoneOrDone" ELSE syn)
            done == r.syncs = 1 /\ after_sync(syn) = "done"
        IN /\ ~panicked
           /\ submit = "NoneOrDone" => Room >= 1
           /\ grow <=> (input /\ submit = "MoreData")
           /\ IF done THEN k >= 1 /\ k <= Room ELSE k = 0
           /\ Engine("encode", input, submit, syn, grow, r,
                     DataOffset, DataLength + k, k)
           /\ EngineWrite(k)
           /\ UNCHANGED <<panicked, last, fileLeft, loop, drain>>
           /\ UNCHANGED <<rtvars, fsvars, alvars>>

\* the engine completes an operation that a call left in flight; an encode
\* operation then writes its output into the Bitstream it was given
Complete ==
    \E kind \in Kinds, k \in 0..MaxInput :
        /\ ~panicked
        /\ pending[kind] > 0
        /\ pending' = [pending EXCEPT ![kind] = @ - 1]
        /\ IF kind = "encode"
           THEN k = Min(1, Room) /\ EngineWrite(k)
           ELSE k = 0 /\ UNCHANGED <<buffer, DataOffset, DataLength>>
        /\ plLast' = [NoPlCall EXCEPT !.op = "complete", !.bytes = k]
        /\ UNCHANGED <<panicked, last, cached, fileLeft, loop, drain>>
        /\ UNCHANGED <<rtvars, fsvars, alvars>>

\* n bytes of the input file
FileBytes(n) == [i \in 1..n |-> 0]

\* the application fills the decoder's Bitstream
Feed ==
    \E n \in 1..MaxInput :
        /\ WriteCall(FileBytes(n))
        /\ plLast' = [NoPlCall EXCEPT !.op = "write"]
        /\ UNCHANGED <<cached, pending, fileLeft, loop, drain>>
        /\ UNCHANGED <<rtvars, fsvars, alvars>>

\* the application copies the encoder's Bitstream out
CopyOut ==
    /\ DataLength >= 1
    /\ ReadCall(DataLength)
    /\ plLast' = [NoPlCall EXCEPT !.op = "read"]
    /\ UNCHANGED <<cached, pending, fileLeft, loop, drain>>
    /\ UNCHANGED <<rtvars, fsvars, alvars>>

PipelineInit == PlRest /\ BsRest /\ RtInit /\ FsRest /\ AlRest

DecodeNext == Decode \/ Process \/ Complete \/ Feed

\* Decoder::decode and VideoProcessor::process, the engine and the input
\* Bitstream
SpecDecode == PipelineInit /\ [][DecodeNext]_vars

EncodeNext == Encode \/ Complete \/ CopyOut

\* Encoder::encode, the engine and the output Bitstream
SpecEncode == PipelineInit /\ [][EncodeNext]_vars

-----------------------------------------------------------------------------
(* examples/decode_file.rs: the decode loop and the drain loop *)

drain_loop_step_no_break(ret) ==
    IF ret \in {"Ok", "MoreData"} THEN "continue" ELSE "panic"

\* the match of the decode loop: a frame is copied out, MoreData reads more
\* of the file and leaves the loop when nothing was read, anything else
\* panics
decode_loop_step(ret, bytes_read) ==
    IF ret = "Ok" THEN "continue"
    ELSE IF ret = "MoreData"
    THEN IF bytes_read = 0 THEN "break" ELSE "continue"
    ELSE "panic"

\* the match of the drain loop: a frame is copied out, MoreData leaves the
\* loop, anything else panics
drain_loop_step(ret) ==
    IF ret = "Ok" THEN "continue"
    ELSE IF ret = "MoreData" THEN "break"
    ELSE "panic"

\* io::copy(file.take(free_buffer_len), bitstream) over a Bitstream at
\* (off, len): the bytes read, and the Bitstream after its write
fill(off, len) ==
    LET n == Min(Len(buffer) - len, fileLeft)
        w == write(buffer, off, len, FileBytes(n))
    IN IF n = 0
       THEN [bytes_read |-> 0, buffer |-> buffer, off |-> off, len |-> len,
             panic |-> FALSE,
             last |-> last]
       ELSE [bytes_read |-> w.ret, buffer |-> w.buffer, off |-> w.off,
             len |-> w.len, panic |-> w.panic \/ w.ret = 0,
             last |-> [op |-> "write", arg |-> FileBytes(n), n |-> n,
                       ret |-> w.ret, out |-> <<>>, preOff |-> off,
                       preLen |-> len]]

\* the first fill of the Bitstream, `assert_ne!(bytes_read, 0)`, and the
\* decoder made from the header
Start ==
    LET f == fill(DataOffset, DataLength) IN
    /\ ~panicked
    /\ loop = "start"
    /\ buffer' = f.buffer
    /\ DataOffset' = f.off
    /\ DataLength' = f.len
    /\ last' = f.last
    /\ fileLeft' = fileLeft - f.bytes_read
    /\ panicked' = (f.panic \/ f.bytes_read = 0)
    /\ loop' = IF f.panic \/ f.bytes_read = 0 THEN "panic" ELSE "decode"
    /\ plLast' = [NoPlCall EXCEPT !.op = "write"]
    /\ UNCHANGED <<cached, pending, drain>>
    /\ UNCHANGED <<rtvars, fsvars, alvars>>

\* one turn of `loop { match decoder.decode(Some(&mut bitstream), ..) }`
DecodeLoop ==
    \E submit \in SubmitStatuses, syn \in SyncStatuses \cup {"none"},
       k \in 0..Capacity, grow \in BOOLEAN :
        LET r == decode(submit, IF syn = "none" THEN "NoneOrDone" ELSE syn)
            f == IF r.ret = "MoreData"
                 THEN fill(DataOffset + k, DataLength - k)
                 ELSE [bytes_read |-> 0, buffer |-> buffer,
                       off |-> DataOffset + k, len |-> DataLength - k,
                       panic |-> FALSE, last |-> last]
            step == decode_loop_step(r.ret, f.bytes_read)
        IN /\ ~panicked
           /\ loop = "decode"
           /\ DecodeOf(TRUE, submit, syn, k, grow)
           /\ buffer' = f.buffer
           /\ DataOffset' = f.off
           /\ DataLength' = f.len
           /\ last' = f.last
           /\ fileLeft' = fileLeft - f.bytes_read
           /\ panicked' = (f.panic \/ step = "panic")
           /\ loop' = IF f.panic \/ step = "panic" THEN "panic"
                      ELSE IF step = "break" THEN "drain" ELSE "decode"
           /\ drain' = IF step = "break"
                       THEN [n |-> cached'["decode"], iters |-> 0,
                             outputs |-> 0]
                       ELSE drain
           /\ UNCHANGED <<rtvars, fsvars, alvars>>

\* one turn of `loop { match decoder.decode(None, None, None) }`
DrainLoop ==
    \E submit \in SubmitStatuses, syn \in SyncStatuses \cup {"none"} :
        LET r == decode(submit, IF syn = "none" THEN "NoneOrDone" ELSE syn)
            step == drain_loop_step(r.ret)
        IN /\ ~panicked
           /\ loop = "drain"
           /\ drain.iters <= MaxCached + 1
           /\ DecodeOf(FALSE, submit, syn, 0, FALSE)
           /\ panicked' = (step = "panic")
           /\ loop' = CASE step = "panic" -> "panic"
                        [] step = "break" -> "done"
                        [] OTHER -> "drain"
           /\ drain' = [drain EXCEPT
                          !.iters = @ + 1,
                          !.outputs = IF r.ret = "Ok" THEN @ + 1 ELSE @]
           /\ UNCHANGED <<buffer, DataOffset, DataLength, last, fileLeft>>
           /\ UNCHANGED <<rtvars, fsvars, alvars>>

DecodeFileInit == PlInit /\ BsRest /\ RtInit /\ FsRest /\ AlRest

DecodeFileNext == Start \/ DecodeLoop \/ DrainLoop

\* the example program that decodes a file
SpecDecodeFile == DecodeFileInit /\ [][DecodeFileNext]_vars

-----------------------------------------------------------------------------
(* Bitstream: properties *)

\* C1: DataOffset + DataLength <= capacity in every reachable state, after
\* any sequence of write, read, set_size and engine steps.
C1_OffsetPlusLengthWithinCapacity ==
    DataOffset + DataLength <= Capacity

\* C2: round trip.  Once the content of an empty Bitstream has been set to a
\* sequence (sent) by write or by set_size, every read returns
\* min(destination size, bytes remaining), the reads concatenated (got) are
\* the leading bytes of sent in order, and when size() is 0 they are all of
\* sent; a read of the drained Bitstream returns 0.
C2_RoundTrip ==
    phase = "drain" =>
        /\ Len(got) + DataLength = Len(sent)
        /\ got = SubSeq(sent, 1, Len(got))
        /\ (DataLength = 0 => got = sent)
        /\ (last.op = "read" =>
                /\ last.ret = Min(last.n, last.preLen)
                /\ Len(last.out) = last.ret
                /\ (last.preLen = 0 => last.ret = 0))

\* A full buffer was drained by more than one read.
C2_Witness ==
    /\ phase = "drain"
    /\ last.op = "read"
    /\ DataLength = 0
    /\ Len(sent) = Capacity
    /\ got = sent
    /\ last.ret > 0
    /\ last.ret < Len(sent)
    /\ 0 \in {sent[i] : i \in 1..Len(sent)}
    /\ 1 \in {sent[i] : i \in 1..Len(sent)}

\* C3: read copies min(out.len, DataLength) bytes starting at index
\* DataOffset and returns no byte outside [DataOffset, DataOffset+DataLength).
C3_ReadStartsAtDataOffset ==
    [][last'.op = "read" =>
          last'.out = Slice(buffer, DataOffset,
                            DataOffset + Min(last'.n, DataLength))]_vars

\* C4: under any interleaving of write and read calls the Bitstream answers
\* every call as a FIFO of the same capacity that never moves its data does,
\* and holds the same bytes in the same order.
C4_CompactionTransparent ==
    /\ (last.op \in {"write", "read"} => ~panicked)
    /\ DataOffset = 0
    /\ Content(buffer, DataOffset, DataLength) = fifo
    /\ (last.op = "read" => last.ret = ref.ret /\ last.out = ref.out)
    /\ (last.op = "write" => last.ret = ref.ret)

\* A write refilled the buffer behind content that had been partly read.
C4_Witness ==
    /\ phase = "idle"
    /\ last.op = "write"
    /\ last.preLen > 0
    /\ last.ret > 0
    /\ DataLength = Capacity
    /\ fifo = Content(buffer, DataOffset, DataLength)

\* C5: a write with DataOffset > 0 and free space moves the unconsumed bytes
\* to the front unchanged, sets DataOffset to 0 and places the accepted input
\* right after them; after every write that accepts a byte DataOffset is 0.
C5_WriteCompacts ==
    [][last'.op = "write" =>
          /\ (DataOffset > 0 /\ DataLength < Capacity =>
                /\ ~panicked'
                /\ DataOffset' = 0
                /\ Slice(buffer', 0, DataLength)
                     = Slice(buffer, DataOffset, DataOffset + DataLength)
                /\ Len(Slice(buffer', 0, DataLength)) = DataLength
                /\ Slice(buffer', DataLength, DataLength + last'.ret)
                     = SubSeq(last'.arg, 1, last'.ret))
          /\ (last'.ret > 0 => DataOffset' = 0)]_vars

\* C6: write never fails; it returns 0 for a non-empty input only when the
\* buffer is full; with free space it accepts min(capacity - DataLength,
\* input length) bytes and size() grows by that count, so an input of at
\* most len() - size() bytes is accepted in full whatever DataOffset is.
C6_WriteAcceptsWhatFits ==
    [][last'.op = "write" =>
          /\ ~panicked'
          /\ (last'.ret = 0 /\ last'.n > 0 => DataLength = Capacity)
          /\ (DataLength < Capacity =>
                /\ last'.ret = Min(Capacity - DataLength, last'.n)
                /\ DataLength' = DataLength + last'.ret)
          /\ (last'.n <= Capacity - DataLength => last'.ret = last'.n)]_vars

\* C7: a write to a Bitstream that holds capacity valid bytes returns 0 and
\* changes neither the stored bytes nor DataOffset nor DataLength.
C7_FullWriteChangesNothing ==
    [][last'.op = "write" /\ DataLength = Capacity =>
          /\ last'.ret = 0
          /\ ~panicked'
          /\ buffer' = buffer
          /\ DataOffset' = DataOffset
          /\ DataLength' = DataLength]_vars

\* A non-empty input was refused by a full buffer.
C7_Witness ==
    /\ last.op = "write"
    /\ last.n > 0
    /\ last.preLen = Capacity
    /\ last.ret = 0
    /\ DataLength = Capacity
    /\ ~panicked

-----------------------------------------------------------------------------
(* FrameSurface: properties *)

\* rows of roww bytes, `p` bytes apart, read straight from the plane
LogicalRows(plane, rows, roww, p) ==
    [j \in 1..rows * roww |->
        plane[((j - 1) \div roww) * p + ((j - 1) % roww) + 1]]

\* the logical bytes of a 4:2:0 frame in the order the streaming read
\* visits the planes
ExpectedStream(f, pl, w, h, p) ==
    IF f = "NV12"
    THEN LogicalRows(pl["Y"], h, w, p) \o LogicalRows(pl["U"], h \div 2, w, p)
    ELSE LogicalRows(pl["Y"], h, w, p)
         \o LogicalRows(pl["U"], h \div 2, w \div 2, p \div 2)
         \o LogicalRows(pl["V"], h \div 2, w \div 2, p \div 2)

\* the cursor values that lie between two rows of some plane
RowBoundaries(f, w, h, p) ==
    CASE f = "BGRA" -> {k * p : k \in 0..h}
      [] f = "NV12" -> {k * w : k \in 0..(h + h \div 2)}
      [] OTHER ->
            {k * w : k \in 0..h}
            \cup {w * h + k * (w \div 2) : k \in 0..(h \div 2)}
            \cup {w * h + (w \div 2) * (h \div 2) + k * (w \div 2) :
                    k \in 0..(h \div 2)}

\* the distance between two rows of a plane, and the logical bytes of a row
PlanePitch(f, name, p) ==
    IF f \in Planar420 /\ name \in {"U", "V"} THEN p \div 2 ELSE p
PlaneRow(f, name, w) ==
    IF f = "BGRA" THEN 4 * w
    ELSE IF f \in Planar420 /\ name \in {"U", "V"} THEN w \div 2 ELSE w

\* Rust indices of the padding bytes of a plane
PaddingAt(f, name, w, h, p) ==
    {i \in 0..PlaneLen(f, name, h, p) - 1 :
        i % PlanePitch(f, name, p) >= PlaneRow(f, name, w)}

PaddingTokens(f, w, h, p) ==
    UNION {{PlaneBase(name) + i : i \in PaddingAt(f, name, w, h, p)} :
            name \in {"Y", "U", "V", "B"}}

\* C8: the outputs of successive streaming reads with destinations of any
\* positive sizes, concatenated until a read returns 0, are the bytes of one
\* read into a destination of the size of the whole frame.
C8_StreamEqualsSingleRead ==
    (fsLast.op = "read" /\ fsLast.status = "Ok" /\ fsLast.n > 0
        /\ fsLast.ret = 0 /\ clean) =>
        streamed = fs_read(fourcc, planes, crop_w, crop_h, pitch, 0,
                           frame_size(fourcc, crop_w, crop_h))

\* the cursor is between two rows, and the last read wrote whole rows:
\* it began and ended between two rows
WholeRows ==
    /\ read_offset \in RowBoundaries(fourcc, crop_w, crop_h, pitch)
    /\ (fsLast.op = "read" /\ fsLast.status = "Ok" =>
            /\ fsLast.pre \in RowBoundaries(fourcc, crop_w, crop_h, pitch)
            /\ read_offset = fsLast.pre + fsLast.ret
            /\ Len(fsLast.out) = fsLast.ret)

C10_PaddingSkipped ==
    /\ (fsLast.op = "read" =>
            \A i \in 1..Len(fsLast.out) :
                fsLast.out[i] \notin PaddingTokens(fourcc, crop_w, crop_h, pitch))
    /\ \A name \in {"Y", "U", "V", "B"} :
            \A i \in PaddingAt(fourcc, name, crop_w, crop_h, pitch) :
                planes[name][i + 1] = PlaneBase(name) + i

-----------------------------------------------------------------------------
(* FrameSurface: planes, placement and lifetime properties *)

\* the planes a pixel format has
PlaneExists(f, name) ==
    IF f = "BGRA" THEN name \in {"B", "G", "R", "A"} ELSE name \in {"Y", "U", "V"}

PlacedAt(k) ==
    {<<name, i>> \in {"Y", "U", "V", "B"} \X (1..(MaxH + 1) * 4 * (MaxW + 1 + MaxPad)) :
        i <= Len(planes[name]) /\ planes[name][i] = 9000 + k}

\* C12: after read_raw_frame with a planar 4:2:0 layout, shadow bytes
\* [0, w*h) are in luma row i at offset i*pitch, the next (w/2)*(h/2) bytes
\* in the first chroma plane of the layout (U for U-before-V, V for
\* V-before-U) and the following (w/2)*(h/2) in the other, chroma row i at
\* offset i*(pitch/2); and every source byte is placed exactly once.
C12_PlacementRule ==
    (fsLast.op = "read_raw_frame" /\ fsLast.status = "Ok"
        /\ fsLast.format \in Planar420) =>
        LET w == crop_w
            h == crop_h
            w2 == crop_w \div 2
            h2 == crop_h \div 2
            p2 == pitch \div 2
            first == IF fsLast.format = "IYUV" THEN "U" ELSE "V"
            second == IF fsLast.format = "IYUV" THEN "V" ELSE "U"
        IN /\ \A i \in 0..h - 1 : \A c \in 0..w - 1 :
                planes["Y"][i * pitch + c + 1] = 9000 + i * w + c
           /\ \A i \in 0..h2 - 1 : \A c \in 0..w2 - 1 :
                /\ planes[first][i * p2 + c + 1] = 9000 + w * h + i * w2 + c
                /\ planes[second][i * p2 + c + 1]
                     = 9000 + w * h + w2 * h2 + i * w2 + c
           /\ \A k \in 0..Len(shadow) - 1 : Cardinality(PlacedAt(k)) = 1

\* C13: read_raw_frame leaves the surface unmapped on every return path:
\* after Ok, after the need-more-data status and after the fatal status the
\* mapped state is false and the call made one Map and one Unmap.
C13_UnmappedOnEveryReturn ==
    (fsLast.op = "read_raw_frame"
        /\ fsLast.status \in {"Ok", "MoreData", "Unknown"}) =>
        /\ ~mapped
        /\ fsLast.calls = <<1, 1, 0>>

\* C14: read_raw_frame takes exactly one frame's worth of bytes from a
\* source that holds them; when the source ends before a full frame it
\* returns MoreData, for any other I/O failure the fatal status, and in both
\* error cases no plane byte of the surface is modified.
C14_OneFrameOrError ==
    [][(fsLast'.op = "read_raw_frame" /\ fsLast'.status # "panic_map") =>
          /\ (fsLast'.src = "full" =>
                fsLast'.n = frame_size(fourcc, crop_w, crop_h))
          /\ (fsLast'.src = "short" =>
                /\ fsLast'.status = "MoreData"
                /\ fsLast'.n < frame_size(fourcc, crop_w, crop_h))
          /\ (fsLast'.src = "error" => fsLast'.status = "Unknown")
          /\ (fsLast'.status = "Ok" => fsLast'.src = "full")
          /\ (fsLast'.status \in {"MoreData", "Unknown"} =>
                /\ planes' = planes
                /\ ~panicked')]_vars

\* A source one byte short of a frame: MoreData, the planes as the engine
\* left them.
C14_Witness ==
    /\ fsLast.op = "read_raw_frame"
    /\ fsLast.src = "short"
    /\ fsLast.status = "MoreData"
    /\ fsLast.n = frame_size(fourcc, crop_w, crop_h) - 1
    /\ planes = InitialPlanes(fourcc, crop_h, pitch)
    /\ ~panicked

\* C15: over the whole lifetime of a FrameSurface the engine's Map is never
\* invoked while the surface is already mapped, and when Drop releases the
\* surface every successful Map has been matched by an Unmap.
C15_MapUnmapPaired ==
    [][/\ (fsLast'.calls[1] > 0 => ~mapped)
       /\ (fsLast'.op = "drop" /\ fsLast'.calls[3] > 0 => engMaps' = 0)]_vars

\* C16: Drop calls Unmap first if and only if the surface is still mapped
\* and then calls Release exactly once, whatever status Unmap returns.
C16_ReleasedExactlyOnce ==
    [][fsLast'.op = "drop" =>
          fsLast'.calls = <<0, IF mapped THEN 1 ELSE 0, 1>>]_vars

\* C17: FrameSurface::map on a surface whose mapped state is already true
\* panics and issues no second engine Map.
C17_DoubleMapPanics ==
    [][(fsLast'.op = "map" /\ mapped) =>
          /\ panicked'
          /\ fsLast'.calls[1] = 0]_vars

\* C18: an accessor of a plane that the surface's pixel format does not
\* have, or of any plane while the surface is not mapped, panics; it
\* returns no view.
C18_MissingPlanePanics ==
    (fsLast.op = "accessor" /\ (~PlaneExists(fourcc, fsLast.name) \/ ~mapped)) =>
        /\ fsLast.status = "panic"
        /\ panicked
        /\ fsLast.ret = 0

\* y() on a mapped packed 4-channel surface panicked.
C18_Witness ==
    /\ fsLast.op = "accessor"
    /\ fsLast.name = "Y"
    /\ fourcc = "BGRA"
    /\ mapped
    /\ fsLast.status = "panic"
    /\ panicked

\* C19: for each of the four pixel formats the accessors of its planes on a
\* mapped surface, read_raw_frame with the surface's format and the
\* streaming read complete without a panic of their own (one that is not
\* the engine refusing Map or Unmap).
C19_FourFormatsSupported ==
    /\ (fsLast.op = "read" => fsLast.status \in {"Ok", "panic_map"})
    /\ (fsLast.op = "read_raw_frame" /\ fsLast.format = fourcc =>
            fsLast.status # "panic")
    /\ (fsLast.op = "accessor" /\ PlaneExists(fourcc, fsLast.name) /\ mapped =>
            fsLast.status = "Ok")

-----------------------------------------------------------------------------
(* Allocator bridge: properties *)

\* C20: from FrameAllocator::new through handler registration and
\* Session::set_allocator until the session is closed, pthis is the current
\* address of the FrameAllocator, the pthis the engine holds is the address
\* of the bridge that the session owns, every trampoline invocation reads
\* the handler table of that bridge, and the bridge is not destroyed before
\* the session is closed.
C20_ContextPointerLive ==
    /\ (faOwner \in {"app", "session"} => pthis = faAddr)
    /\ ((engAllocator.set /\ sessionOpen) =>
            /\ faOwner = "session"
            /\ engAllocator.pthis = faAddr)
    /\ (faLast.op = "invoke" => faLast.table = "live")

\* C21: after any sequence of registrations the slot of a role that the
\* engine sees holds a trampoline if and only if a handler is stored for the
\* role, and an invocation of that trampoline that finds the bridge calls
\* the handler registered last for the role, once, and returns its status.
C21_TrampolineCallsHandler ==
    /\ (engAllocator.set => engAllocator.fns = {r \in Roles : callbacks[r] # 0})
    /\ ((faLast.op = "invoke" /\ faLast.table = "live"
            /\ callbacks[faLast.role] # 0) =>
            /\ faLast.called = callbacks[faLast.role]
            /\ faLast.ret \in HandlerStatuses
            /\ ~panicked)

\* C22: a trampoline invoked for a role with no handler registered returns
\* MfxStatus::MemoryAlloc, calls no handler and does not panic.
C22_NoHandlerReturnsMemoryAlloc ==
    (faLast.op = "invoke" /\ callbacks[faLast.role] = 0) =>
        /\ faLast.ret = "MemoryAlloc"
        /\ faLast.called = 0
        /\ ~panicked

\* get_hdl was invoked on a table that holds handlers for other roles only.
C22_Witness ==
    /\ faLast.op = "invoke"
    /\ faLast.role = "get_hdl"
    /\ callbacks["get_hdl"] = 0
    /\ callbacks["alloc"] # 0
    /\ callbacks["free"] # 0
    /\ faLast.ret = "MemoryAlloc"
    /\ ~panicked

-----------------------------------------------------------------------------
(* The pipeline: properties *)

\* C23: after a decode, process or encode call whose synchronize reports
\* that the operation is not done within the wait, the operation is still
\* in flight and the caller holds what it needs to synchronize that same
\* operation again: the call has handed it over and has not released it.
C23_TimeoutKeepsOperation ==
    (plLast.op \in Kinds /\ plLast.syn = "InExecution") =>
        /\ plLast.left = "pending"
        /\ pending[plLast.op] > 0
        /\ plLast.surface
        /\ ~plLast.released

C27_ReturnedSurfaceIsReady ==
    (plLast.op \in {"decode", "process"} /\ plLast.surface) =>
        /\ plLast.ret = "Ok"
        /\ plLast.submit = "NoneOrDone"
        /\ plLast.syncs = 1
        /\ plLast.syn = "NoneOrDone"
        /\ plLast.left = "done"

\* process returned a surface while an earlier decode that timed out is
\* still in flight
C27_Witness ==
    /\ plLast.op = "process"
    /\ plLast.surface
    /\ plLast.ret = "Ok"
    /\ pending["decode"] > 0
    /\ pending["process"] = 0

\* C30: whenever Encoder::encode has returned, whatever it returned, no
\* operation that it submitted is still in flight, so the engine does not
\* change the bytes or the DataLength of the output Bitstream while the
\* application uses it.
C30_NoWriterAfterEncode ==
    /\ (plLast.op = "encode" => pending["encode"] = 0)
    /\ (plLast.op = "complete" => plLast.bytes = 0)

\* C24: the drain loop, entered when the decoder holds n frames back, never
\* makes more than n + 1 turns; while no call of it has failed it has got
\* one frame per turn, and it leaves through the MoreData of turn n + 1
\* with exactly n frames.
C24_DrainTerminates ==
    loop \in {"drain", "done", "panic"} =>
        /\ drain.iters <= drain.n + 1
        /\ drain.outputs <= drain.n
        /\ (loop = "drain" =>
                /\ drain.outputs = drain.iters
                /\ cached["decode"] = drain.n - drain.outputs)
        /\ (loop = "done" =>
                /\ drain.outputs = drain.n
                /\ drain.iters = drain.n + 1
                /\ plLast.submit = "MoreData"
                /\ cached["decode"] = 0)

\* the drain loop has ended after it got the most frames a decoder holds
C24_Witness ==
    /\ loop = "done"
    /\ drain.n = MaxCached
    /\ drain.outputs = MaxCached
    /\ drain.iters = MaxCached + 1

\* C26: a flow-control status (MoreData, MoreSurface, VideoParamChanged)
\* that decode returns never ends the decode loop or the drain loop as a
\* failure: the program goes on.
C26_FlowControlContinues ==
    (plLast.op = "decode" /\ plLast.ret \in FlowControl) =>
        /\ loop \in {"decode", "drain", "done"}
        /\ ~panicked

-----------------------------------------------------------------------------
(* FrameSurface: raw write against streaming read, and extents *)

\* the planes after read_raw_frame(source, fourcc) on the fresh surface
RawStored ==
    read_func(fourcc, InitialPlanes(fourcc, crop_h, pitch),
              SourceFrame(frame_size(fourcc, crop_w, crop_h)),
              fourcc, crop_w, crop_h, pitch)

\* C28: on a planar 4:2:0 surface, or a packed 4-channel one whose pitch is
\* its row byte width, read_raw_frame(source, F) with F the surface's format
\* followed by streaming reads until one returns 0 yields the frame bytes
\* taken from the source, in their order.
C28_RawWriteStreamReadInverse ==
    (/\ fourcc \in Planar420 \cup {"BGRA"}
     /\ fourcc = "BGRA" => pitch = row_bytes_of(fourcc, crop_w)
     /\ ~RawStored.panic
     /\ planes = RawStored.planes
     /\ clean
     /\ fsLast.op = "read" /\ fsLast.status = "Ok"
     /\ fsLast.n > 0 /\ fsLast.ret = 0) =>
        streamed = SourceFrame(frame_size(fourcc, crop_w, crop_h))

\* C29: with pitch >= row width, every row that the streaming read takes and
\* every row that read_raw_frame stores lies inside the view that the
\* accessor of its plane returns (luma crop_height * pitch, chroma
\* (crop_height / 2) * (pitch / 2), the semi-planar chroma plane too, packed
\* crop_height * pitch), and every index into the shadow buffer is below
\* frame_size, for odd crop sizes too.
C29_RangesInsideExtents ==
    (fsLast.op \in {"read", "read_raw_frame"} /\ fsLast.status = "Ok") =>
        /\ \A name \in {"Y", "U", "V", "B"} :
                stream_extent(fourcc, name, crop_w, crop_h, pitch) > 0 =>
                    stream_extent(fourcc, name, crop_w, crop_h, pitch)
                        <= accessor_len(fourcc, name, crop_h, pitch)
        /\ fourcc \in Planar420 =>
                /\ Len(shadow) = frame_size(fourcc, crop_w, crop_h)
                /\ ~read_func(fourcc, planes, shadow, fourcc, crop_w, crop_h,
                              pitch).panic

=============================================================================
